---- MODULE Spec2Model ----
(***************************************************************************)
(* SignEcho: the frame sampler of CameraView, the single-flight guard,     *)
(* the sentence builder, the confidence history and the speech gate of     *)
(* App, and the inference client translateSignLanguageFrame.               *)
(*                                                                         *)
(* The browser runs one event loop, so every handler below is one atomic   *)
(* action; the only suspension point is the await of the inference call in *)
(* handleFrameCapture, which splits that handler in two actions.           *)
(*                                                                         *)
(* State updates made after an await (App.tsx:50-68 after the inference    *)
(* call, CameraView.tsx:26-34 after getUserMedia) are queued by React and  *)
(* applied by a later render task (a root made with createRoot): the       *)
(* updaters, and the speak call inside the setSentence updater, run in     *)
(* that render, in the order in which they were queued. Updates made in a  *)
(* click handler are rendered at once. What that render does with the      *)
(* updates queued before the click depends on the React the program is     *)
(* built with, which the source does not fix: it applies them too, before  *)
(* those of the click (React 19), or it skips them and leaves them, in     *)
(* queue order, to the pending render task (React 18). A root that renders *)
(* synchronously runs Render right after Resume and after CameraGranted,   *)
(* with no step between the two.                                           *)
(***************************************************************************)
EXTENDS Integers, Sequences, FiniteSets, TLC

VARIABLES
    isActive,           \* App.tsx:15  session flag
    isMuted,            \* App.tsx:16  mute flag of the latest render
    currentSign,        \* App.tsx:17  text of the latest processed result
    sentence,           \* App.tsx:18  the Transcript
    confidenceHistory,  \* App.tsx:19  the History Buffer
    isProcessingRef,    \* App.tsx:24  the shared busy flag
    stream,             \* CameraView.tsx:12  TRUE once the video stream is acquired
    error,              \* CameraView.tsx:13  TRUE once camera acquisition has failed
    cameraQueued,       \* the update that the answer of getUserMedia queued and
                        \* that is not yet rendered: "stream", "error" or "none"
    clickFlushes,       \* the build: TRUE when the render of a click applies the
                        \* updates queued before the click too
    elapsed,            \* CameraView.tsx:52  TRUE when the interval's 1500 ms have
                        \* passed since it was set or last fired: its callback
                        \* is due
    pending,            \* the state updates queued and not yet rendered, oldest
                        \* first
    base,               \* the Transcript and the History that the pending
                        \* updates are applied to
    requests,           \* inference calls awaited by handleFrameCapture, each with
                        \* the closure (speak -> isMuted) of the render that issued
                        \* it, its ordinal, and whether the session was restarted
                        \* since it was issued
    speechQueue,        \* window.speechSynthesis: utterances queued or being spoken
    speechCalls,        \* the speechSynthesis calls made by the latest step
    applied,            \* the results whose updaters the latest step ran, each
                        \* with the Transcript and History before and after
    answered,           \* the answer the latest step resumed with, if it resumed
    ticked,             \* what the latest step did as an interval tick: "none"
                        \* (it was no tick), "skipped", "dropped" or "issued"
    clicked,            \* the button the latest step was a click on: "record",
                        \* "mute" or "clear", or "none" when it was no click
    issued,             \* number of inference requests issued so far
    processed,          \* the results processed so far, oldest first
    lastAccepted        \* the label most recently appended to the Transcript

vars == <<isActive, isMuted, currentSign, sentence, confidenceHistory,
          isProcessingRef, stream, error, cameraQueued, clickFlushes, elapsed,
          pending, base, requests, speechQueue, speechCalls, applied, answered,
          ticked, clicked, issued, processed, lastAccepted>>

-----------------------------------------------------------------------------
(* Bounds of the model *)

\* requests issued in one run of Spec
MaxRequests == 3
\* requests issued in one run of SpecHistory (more than the window holds) by
\* a build whose click render applies the queued updates
MaxHistoryRequests == 11
\* requests issued in one run of SpecHistory by a build whose click render
\* skips the queued updates
MaxSkippedRequests == 7
\* requests issued in one run of SpecService
MaxServiceRequests == 3
\* requests issued in one run of FairSpec
MaxFairRequests == 2

(* Program constants *)

\* Array(10): the capacity of the History Buffer
HistoryCapacity == 10
\* result.confidence > 60
ConfidenceThreshold == 60

\* the text of an unclear result
Unclear == "..."
\* undefined: no last word, no label accepted yet; a label s is <<s>>, so
\* that undefined differs from every label
NoLabel == <<>>

-----------------------------------------------------------------------------
(* formatTime(): the wall clock rendered as hh:mm:ss. The clock is not part *)
(* of the model; every reading is the same non-empty string.                *)
formatTime == "hh:mm:ss"

\* Array(10).fill({ name: '', confidence: 0 })
InitialHistory == [i \in 1..HistoryCapacity |-> [name |-> "", confidence |-> 0]]

-----------------------------------------------------------------------------
(* The remote service's answers to generateContent.                        *)
(*   kind "rejected": the call rejects (transport or service error)        *)
(*   kind "notext"  : response.text is undefined or empty                  *)
(*   kind "garbage" : response.text is not JSON                            *)
(*   kind "null"    : response.text is the JSON null                       *)
(*   kind "object"  : response.text is a JSON object; hasSign and          *)
(*                    hasConfidence tell which fields it carries           *)
Answer(kind, hasSign, sign, hasConfidence, confidence) ==
    [kind |-> kind, hasSign |-> hasSign, sign |-> sign,
     hasConfidence |-> hasConfidence, confidence |-> confidence]

Failure(kind) == Answer(kind, FALSE, "", FALSE, 0)
Object(sign, confidence) == Answer("object", TRUE, sign, TRUE, confidence)

\* no answer: the latest step was not the resumption of a request
NoAnswer == Failure("none")

FailureAnswers ==
    { Failure("rejected"), Failure("notext"), Failure("garbage"), Failure("null") }

PartialAnswers ==
    { Answer("object", FALSE, "", TRUE, 80),     \* {"confidence": 80}
      Answer("object", TRUE, "A", FALSE, 0),     \* {"sign": "A"}
      Answer("object", FALSE, "", FALSE, 0),     \* {}
      Object("", 80) }                           \* {"sign": "", "confidence": 80}

Answers ==
    FailureAnswers \cup PartialAnswers \cup
    { Object("A", 80), Object("B", 80), Object("A", 60), Object("A", 40),
      Object(Unclear, 80),
      Object("A", 150) }                         \* nothing bounds the number sent

\* the answers of Spec: two signs above the threshold and one at it
SignAnswers == { Object("A", 80), Object("B", 80), Object("A", 60) }

\* the answers of SpecHistory: the service gives an accepted sign and a
\* rejected one in turn
HistoryAnswer(id) == IF id % 2 = 1 THEN Object("A", 80) ELSE Object("B", 40)

\* the answers of FairSpec
FairAnswers == { Object("A", 80), Failure("rejected") }

-----------------------------------------------------------------------------
(* translateSignLanguageFrame                                              *)

Sentinel == [raised |-> FALSE, text |-> Unclear, confidence |-> 0]
Raised == [raised |-> TRUE, text |-> Unclear, confidence |-> 0]

\* result.sign || '...'
signOrUnclear(a) == IF a.hasSign /\ a.sign # "" THEN a.sign ELSE Unclear

\* result.confidence || 0
confidenceOrZero(a) == IF a.hasConfidence /\ a.confidence # 0 THEN a.confidence ELSE 0

\* the body of the try block: what it returns, or that it throws
tryTranslate(a) ==
    CASE a.kind = "rejected" -> Raised        \* await generateContent rejects
      [] a.kind = "notext"   -> Sentinel      \* if (!jsonText) return sentinel
      [] a.kind = "garbage"  -> Raised        \* JSON.parse throws SyntaxError
      [] a.kind = "null"     -> Raised        \* null.sign throws TypeError
      [] OTHER -> [raised |-> FALSE, text |-> signOrUnclear(a),
                   confidence |-> confidenceOrZero(a)]

\* variant: the try block without its catch
translateNoCatch(a) == tryTranslate(a)

\* try { ... } catch (error) { return sentinel }
translateSignLanguageFrame(a) ==
    IF tryTranslate(a).raised THEN Sentinel ELSE tryTranslate(a)

-----------------------------------------------------------------------------
(* App: speak                                                              *)

Cancel == <<"cancel", "">>
Speak(text) == <<"speak", text>>

\* the speechSynthesis calls speak(text) makes under a closure whose isMuted is muted
speak(muted, text) ==
    IF muted \/ text = "" \/ text = Unclear
    THEN <<>>
    ELSE <<Cancel, Speak(text)>>

\* the utterance queue after the calls: cancel empties it, speak appends
queueAfter(queue, calls) ==
    IF calls = <<>> THEN queue ELSE <<calls[2][2]>>

\* the latest step ran no updater, resumed no request, was no interval tick
\* and no click
NoObservation ==
    applied' = <<>> /\ answered' = NoAnswer /\ ticked' = "none" /\ clicked' = "none"

\* a step that makes no speechSynthesis call, resumes no request and is no tick
Quiet == speechCalls' = <<>> /\ NoObservation

-----------------------------------------------------------------------------
(* App: handleFrameCapture, after the await                                *)

\* prev[prev.length - 1]
lastWord(prev) == IF Len(prev) = 0 THEN NoLabel ELSE <<prev[Len(prev)]>>

\* variant: the threshold taken inclusively
aboveThresholdInclusive(result) ==
    result.text # Unclear /\ result.confidence >= ConfidenceThreshold

\* if (result.text !== '...' && result.confidence > 60)
aboveThreshold(result) ==
    result.text # Unclear /\ result.confidence > ConfidenceThreshold

\* variant: no comparison with the last word
acceptsNoDebounce(prev, result) == aboveThreshold(result)

\* variant: a word already in the Transcript is not appended again
acceptsUnlessSeen(prev, result) ==
    aboveThreshold(result) /\ \A i \in 1..Len(prev) : prev[i] # result.text

\* the updater appends: lastWord !== result.text
accepts(prev, result) ==
    aboveThreshold(result) /\ lastWord(prev) # <<result.text>>

\* variant: the updater returns the new word alone
buildSentenceReplace(prev, result) ==
    IF accepts(prev, result) THEN <<result.text>> ELSE prev

\* setSentence(prev => ...)
buildSentence(prev, result) ==
    IF accepts(prev, result) THEN Append(prev, result.text) ELSE prev

\* variant: the oldest point is not dropped
slideHistoryGrow(prev, result) ==
    Append(prev, [name |-> formatTime, confidence |-> result.confidence])

\* variant: a point is recorded for an accepted result only
slideHistoryAcceptedOnly(prev, result) ==
    IF aboveThreshold(result)
    THEN Append(SubSeq(prev, 2, Len(prev)),
                [name |-> formatTime, confidence |-> result.confidence])
    ELSE prev

\* [...prev.slice(1), { name: formatTime(), confidence: result.confidence }]
slideHistory(prev, result) ==
    Append(SubSeq(prev, 2, Len(prev)),
           [name |-> formatTime, confidence |-> result.confidence])

\* finally { isProcessingRef.current = false }
flagAfter(result) == FALSE

\* the requests left when the one at position i has been answered
Without(seq, i) == SubSeq(seq, 1, i - 1) \o SubSeq(seq, i + 1, Len(seq))

-----------------------------------------------------------------------------
(* App: the update queue                                                   *)

\* the updates handleFrameCapture queues for a result, under the closure of
\* the request req: setCurrentSign, setConfidenceHistory, setSentence
ResultUpdate(req, result) ==
    [kind |-> "result", id |-> req.id, text |-> result.text,
     confidence |-> result.confidence, muted |-> req.muted, stale |-> req.stale]

\* setSentence([]) of the Clear button
ClearUpdate ==
    [kind |-> "clear", id |-> 0, text |-> "", confidence |-> 0, muted |-> FALSE,
     stale |-> FALSE]

\* setSentence([]); setConfidenceHistory(Array(10).fill(...)) of toggleRecording
ResetUpdate ==
    [kind |-> "reset", id |-> 0, text |-> "", confidence |-> 0, muted |-> FALSE,
     stale |-> FALSE]

\* no update is pending: nothing to apply updates to
NoBase == [sentence |-> <<>>, confidenceHistory |-> <<>>]

\* the results among the queued updates
Queued(queue) == { k \in 1..Len(queue) : queue[k].kind = "result" }

\* the queue after a click handler's update u, when the render of the click
\* skips the updates queued before it: u follows them. Two click updates in a
\* row have the effect of one (a reset if either is), and one is kept.
Enqueue(queue, u) ==
    IF queue = <<>>
    THEN <<>>
    ELSE IF queue[Len(queue)].kind = "result"
         THEN Append(queue, u)
         ELSE IF u.kind = "reset"
              THEN Append(SubSeq(queue, 1, Len(queue) - 1), u)
              ELSE queue

\* variant: a muted closure skips the acceptance altogether
ProcessResultUnlessMuted(st, u) ==
    LET take == accepts(st.sentence, u) /\ ~u.muted
        calls == IF take THEN speak(u.muted, u.text) ELSE <<>>
        next == IF take THEN Append(st.sentence, u.text) ELSE st.sentence
        hnext == slideHistory(st.confidenceHistory, u)
    IN  [sentence |-> next,
         confidenceHistory |-> hnext,
         currentSign |-> u.text,
         speechQueue |-> queueAfter(st.speechQueue, calls),
         calls |-> st.calls \o calls,
         processed |-> Append(st.processed,
                              [text |-> u.text, confidence |-> u.confidence]),
         lastAccepted |-> IF take THEN <<u.text>> ELSE st.lastAccepted,
         applied |-> Append(st.applied,
                            [id |-> u.id, text |-> u.text, confidence |-> u.confidence,
                             muted |-> u.muted, stale |-> u.stale,
                             last |-> st.lastAccepted,
                             prev |-> st.sentence, next |-> next,
                             hprev |-> st.confidenceHistory, hnext |-> hnext,
                             calls |-> calls])]

\* the updates of one result applied to the state st that the render works
\* on: setCurrentSign(result.text), the setConfidenceHistory updater and the
\* setSentence updater with its speak call
ProcessResult(st, u) ==
    LET take == accepts(st.sentence, u)
        calls == IF take THEN speak(u.muted, u.text) ELSE <<>>
        next == buildSentence(st.sentence, u)
        hnext == slideHistory(st.confidenceHistory, u)
    IN  [sentence |-> next,
         confidenceHistory |-> hnext,
         currentSign |-> u.text,
         speechQueue |-> queueAfter(st.speechQueue, calls),
         calls |-> st.calls \o calls,
         processed |-> Append(st.processed,
                              [text |-> u.text, confidence |-> u.confidence]),
         lastAccepted |-> IF take THEN <<u.text>> ELSE st.lastAccepted,
         applied |-> Append(st.applied,
                            [id |-> u.id, text |-> u.text, confidence |-> u.confidence,
                             muted |-> u.muted, stale |-> u.stale,
                             last |-> st.lastAccepted,
                             prev |-> st.sentence, next |-> next,
                             hprev |-> st.confidenceHistory, hnext |-> hnext,
                             calls |-> calls])]

\* one queued update applied
ApplyUpdate(st, u) ==
    CASE u.kind = "result" -> ProcessResult(st, u)
      [] u.kind = "clear"  -> [st EXCEPT !.sentence = <<>>]
      [] OTHER -> [st EXCEPT !.sentence = <<>>,
                             !.confidenceHistory = InitialHistory]

\* the queued updates applied oldest first
RECURSIVE Replay(_, _)
Replay(st, queue) ==
    IF queue = <<>> THEN st ELSE Replay(ApplyUpdate(st, Head(queue)), Tail(queue))

\* the state the updates queued from now on are applied to
baseAfter == IF pending = <<>>
             THEN [sentence |-> sentence, confidenceHistory |-> confidenceHistory]
             ELSE base

\* the outcome of a render that applies the updates of queue, oldest first,
\* to the state they were queued on
Rendered(queue) ==
    Replay([sentence |-> baseAfter.sentence,
            confidenceHistory |-> baseAfter.confidenceHistory,
            currentSign |-> currentSign,
            speechQueue |-> speechQueue,
            calls |-> <<>>,
            processed |-> processed,
            lastAccepted |-> lastAccepted,
            applied |-> <<>>], queue)

\* the outcome st of a render is committed: no update of App is left queued
Commit(st) ==
    /\ sentence' = st.sentence
    /\ confidenceHistory' = st.confidenceHistory
    /\ currentSign' = st.currentSign
    /\ speechQueue' = st.speechQueue
    /\ speechCalls' = st.calls
    /\ processed' = st.processed
    /\ lastAccepted' = st.lastAccepted
    /\ applied' = st.applied
    /\ pending' = <<>>
    /\ base' = NoBase

\* the render applies the queued update of CameraView: setStream(mediaStream)
\* and setError(null), or setError(...)
CommitCamera ==
    /\ stream' = (stream \/ cameraQueued = "stream")
    /\ error' = (error \/ cameraQueued = "error")
    /\ cameraQueued' = "none"

\* the render of a click skips the updates queued before the click
SkipQueued ==
    /\ speechCalls' = <<>>
    /\ applied' = <<>>
    /\ UNCHANGED <<currentSign, speechQueue, processed, lastAccepted, base,
                   stream, error, cameraQueued>>

\* the render task: the queued updates are applied and the outcome is
\* committed. With a stream or an error committed the frame capture effect
\* runs again.
Render ==
    /\ pending # <<>> \/ cameraQueued # "none"
    /\ Commit(Rendered(pending))
    /\ CommitCamera
    /\ elapsed' = IF cameraQueued # "none" THEN FALSE ELSE elapsed
    /\ answered' = NoAnswer
    /\ ticked' = "none"
    /\ clicked' = "none"
    /\ UNCHANGED <<clickFlushes, isActive, isMuted, isProcessingRef, requests, issued>>

\* the try block after the await, under the closure of request req: the
\* updates of the result are queued
QueueResult(req, result) ==
    /\ pending' = Append(pending, ResultUpdate(req, result))
    /\ base' = baseAfter

\* the catch block: nothing but a console message
ProcessFailed == UNCHANGED <<pending, base>>

\* variant: the result discarded once the session is inactive
ResumeUnlessInactive(i, a) ==
    LET result == translateSignLanguageFrame(a)
    IN  /\ IF result.raised \/ ~isActive
           THEN ProcessFailed
           ELSE QueueResult(requests[i], result)
        /\ isProcessingRef' = flagAfter(result)
        /\ requests' = Without(requests, i)
        /\ answered' = a
        /\ ticked' = "none"
        /\ clicked' = "none"
        /\ speechCalls' = <<>>
        /\ applied' = <<>>
        /\ UNCHANGED <<clickFlushes, isActive, isMuted, stream, error, cameraQueued, elapsed, issued,
                       currentSign, sentence, confidenceHistory, speechQueue,
                       processed, lastAccepted>>

\* handleFrameCapture resumes with the answer a to its request at position i
\* and runs to its end
Resume(i, a) ==
    LET result == translateSignLanguageFrame(a)
    IN  /\ IF result.raised
           THEN ProcessFailed
           ELSE QueueResult(requests[i], result)
        /\ isProcessingRef' = flagAfter(result)
        /\ requests' = Without(requests, i)
        /\ answered' = a
        /\ ticked' = "none"
        /\ clicked' = "none"
        /\ speechCalls' = <<>>
        /\ applied' = <<>>
        /\ UNCHANGED <<clickFlushes, isActive, isMuted, stream, error, cameraQueued, elapsed, issued,
                       currentSign, sentence, confidenceHistory, speechQueue,
                       processed, lastAccepted>>

-----------------------------------------------------------------------------
(* CameraView: the camera and the sampler                                  *)

\* getUserMedia resolves: setStream(mediaStream) and setError(null) are
\* queued for the next render
CameraGranted ==
    /\ ~stream /\ ~error /\ cameraQueued = "none"
    /\ cameraQueued' = "stream"
    /\ Quiet
    /\ UNCHANGED <<clickFlushes, isActive, isMuted, currentSign, sentence,
                   confidenceHistory, isProcessingRef, stream, error, elapsed,
                   pending, base, requests, speechQueue, issued, processed,
                   lastAccepted>>

\* getUserMedia rejects: setError(...) is queued for the next render
CameraDenied ==
    /\ ~stream /\ ~error /\ cameraQueued = "none"
    /\ cameraQueued' = "error"
    /\ Quiet
    /\ UNCHANGED <<clickFlushes, isActive, isMuted, currentSign, sentence,
                   confidenceHistory, isProcessingRef, stream, error, elapsed,
                   pending, base, requests, speechQueue, issued, processed,
                   lastAccepted>>

\* variant: the interval set whenever the session is active
intervalRunsIgnoringCamera == isActive

\* variant: the interval set whatever the session flag
intervalRunsIgnoringSession == stream /\ ~error

\* if (isActive && stream && !error) setInterval(...)
intervalRuns == isActive /\ stream /\ ~error

\* variant: the tick goes on whatever the flag
guardIgnored == TRUE

\* if (isProcessingRef.current) return;   (the tick goes on when this holds)
guardPasses == ~isProcessingRef

\* variant: a tick that finds the flag set queues its request
SamplerTickQueues(limit, context) ==
    /\ intervalRuns /\ elapsed
    /\ issued < limit
    /\ context
    /\ elapsed' = FALSE
    /\ requests' = Append(requests, [muted |-> isMuted, id |-> issued + 1,
                                     stale |-> FALSE])
    /\ issued' = issued + 1
    /\ isProcessingRef' = TRUE
    /\ ticked' = IF guardPasses THEN "issued" ELSE "dropped"
    /\ speechCalls' = <<>> /\ applied' = <<>> /\ answered' = NoAnswer
    /\ clicked' = "none"
    /\ UNCHANGED <<clickFlushes, isActive, isMuted, currentSign, sentence, confidenceHistory,
                   stream, error, cameraQueued, pending, base, speechQueue, processed,
                   lastAccepted>>

\* 1500 ms pass with the interval set and not set anew
PeriodElapses(limit) ==
    /\ intervalRuns /\ ~elapsed
    /\ issued < limit
    /\ elapsed' = TRUE
    /\ Quiet
    /\ UNCHANGED <<clickFlushes, isActive, isMuted, currentSign, sentence, confidenceHistory,
                   isProcessingRef, stream, error, cameraQueued, pending, base, requests,
                   speechQueue, issued, processed, lastAccepted>>

\* the interval fires: its callback runs and its next period begins.
\* context: the video and canvas elements are mounted and
\* canvas.getContext('2d') gives a context; without one the callback does
\* nothing. With one it calls onFrameCapture(base64): handleFrameCapture up
\* to the await.
SamplerTick(limit, context) ==
    /\ intervalRuns /\ elapsed
    /\ issued < limit
    /\ elapsed' = FALSE
    /\ IF context /\ guardPasses
       THEN /\ isProcessingRef' = TRUE
            /\ requests' = Append(requests, [muted |-> isMuted, id |-> issued + 1,
                                             stale |-> FALSE])
            /\ issued' = issued + 1
            /\ ticked' = "issued"
            /\ speechCalls' = <<>> /\ applied' = <<>> /\ answered' = NoAnswer
            /\ clicked' = "none"
            /\ UNCHANGED <<clickFlushes, isActive, isMuted, currentSign, sentence,
                           confidenceHistory, stream, error, cameraQueued, pending, base,
                           speechQueue, processed, lastAccepted>>
       ELSE /\ ticked' = IF context THEN "dropped" ELSE "skipped"
            /\ speechCalls' = <<>> /\ applied' = <<>> /\ answered' = NoAnswer
            /\ clicked' = "none"
            /\ UNCHANGED <<clickFlushes, isActive, isMuted, currentSign, sentence,
                           confidenceHistory, isProcessingRef, stream, error, cameraQueued,
                           pending, base, requests, speechQueue, issued,
                           processed, lastAccepted>>

-----------------------------------------------------------------------------
(* App: the buttons                                                        *)

\* the outstanding requests seen from a new session: all of them were issued
\* before it began (the code keeps no such mark; it is kept here to tell them)
FromEarlierSession(reqs) ==
    [i \in 1..Len(reqs) |-> [reqs[i] EXCEPT !.stale = TRUE]]

\* variant: the restart resets the Transcript alone
toggleRecordingKeepHistory ==
    /\ isActive' = ~isActive
    /\ elapsed' = FALSE
    /\ requests' = IF ~isActive THEN FromEarlierSession(requests) ELSE requests
    /\ IF clickFlushes
       THEN /\ Commit(Rendered(IF ~isActive THEN Append(pending, ClearUpdate)
                                            ELSE pending))
            /\ CommitCamera
       ELSE /\ IF ~isActive
               THEN /\ sentence' = <<>> /\ UNCHANGED confidenceHistory
                    /\ pending' = Enqueue(pending, ClearUpdate)
               ELSE UNCHANGED <<sentence, confidenceHistory, pending>>
            /\ SkipQueued
    /\ answered' = NoAnswer /\ ticked' = "none" /\ clicked' = "record"
    /\ UNCHANGED <<clickFlushes, isMuted, isProcessingRef, issued>>

\* setIsActive(!isActive); if (!isActive) { setSentence([]); setConfidenceHistory(...) }
\* The frame capture effect runs again: the interval is cleared, and set anew
\* on activation.
toggleRecording ==
    /\ isActive' = ~isActive
    /\ elapsed' = FALSE
    /\ requests' = IF ~isActive THEN FromEarlierSession(requests) ELSE requests
    /\ IF clickFlushes
       THEN /\ Commit(Rendered(IF ~isActive THEN Append(pending, ResetUpdate)
                                            ELSE pending))
            /\ CommitCamera
       ELSE /\ IF ~isActive
               THEN /\ sentence' = <<>> /\ confidenceHistory' = InitialHistory
                    /\ pending' = Enqueue(pending, ResetUpdate)
               ELSE UNCHANGED <<sentence, confidenceHistory, pending>>
            /\ SkipQueued
    /\ answered' = NoAnswer /\ ticked' = "none" /\ clicked' = "record"
    /\ UNCHANGED <<clickFlushes, isMuted, isProcessingRef, issued>>

\* onClick={() => setIsMuted(!isMuted)}. speak and handleFrameCapture are
\* made anew, so the frame capture effect runs again: the interval is cleared
\* and set anew, and its period starts over.
ToggleMute ==
    /\ isMuted' = ~isMuted
    /\ elapsed' = FALSE
    /\ IF clickFlushes
       THEN Commit(Rendered(pending)) /\ CommitCamera
       ELSE UNCHANGED <<sentence, confidenceHistory, pending>> /\ SkipQueued
    /\ answered' = NoAnswer /\ ticked' = "none" /\ clicked' = "mute"
    /\ UNCHANGED <<clickFlushes, isActive, isProcessingRef, requests, issued>>

\* onClick={() => setSentence([])}
ClearTranscript ==
    /\ IF clickFlushes
       THEN /\ Commit(Rendered(Append(pending, ClearUpdate)))
            /\ CommitCamera
            /\ elapsed' = IF cameraQueued # "none" THEN FALSE ELSE elapsed
       ELSE /\ sentence' = <<>>
            /\ pending' = Enqueue(pending, ClearUpdate)
            /\ UNCHANGED <<confidenceHistory, elapsed>>
            /\ SkipQueued
    /\ answered' = NoAnswer /\ ticked' = "none" /\ clicked' = "clear"
    /\ UNCHANGED <<clickFlushes, isActive, isMuted, isProcessingRef, requests, issued>>

\* the platform finishes speaking the utterance at the head of its queue
UtteranceEnds ==
    /\ speechQueue # <<>>
    /\ speechQueue' = Tail(speechQueue)
    /\ Quiet
    /\ UNCHANGED <<clickFlushes, isActive, isMuted, currentSign, sentence, confidenceHistory,
                   isProcessingRef, stream, error, cameraQueued, elapsed, pending, base, requests,
                   issued, processed, lastAccepted>>

-----------------------------------------------------------------------------
Init ==
    /\ isActive = FALSE
    /\ isMuted = FALSE
    /\ currentSign = Unclear
    /\ sentence = <<>>
    /\ confidenceHistory = InitialHistory
    /\ isProcessingRef = FALSE
    /\ stream = FALSE
    /\ error = FALSE
    /\ cameraQueued = "none"
    /\ clickFlushes \in BOOLEAN
    /\ elapsed = FALSE
    /\ pending = <<>>
    /\ base = NoBase
    /\ requests = <<>>
    /\ speechQueue = <<>>
    /\ speechCalls = <<>>
    /\ applied = <<>>
    /\ answered = NoAnswer
    /\ ticked = "none"
    /\ clicked = "none"
    /\ issued = 0
    /\ processed = <<>>
    /\ lastAccepted = NoLabel

Elapse == PeriodElapses(MaxRequests)
Tick == \E context \in BOOLEAN : SamplerTick(MaxRequests, context)
\* an answer arrives
Respond ==
    \E i \in 1..Len(requests) : \E a \in SignAnswers : Resume(i, a)

Next ==
    \/ CameraGranted
    \/ CameraDenied
    \/ Elapse
    \/ Tick
    \/ Respond
    \/ Render
    \/ toggleRecording
    \/ ToggleMute
    \/ ClearTranscript
    \/ UtteranceEnds

Spec == Init /\ [][Next]_vars

-----------------------------------------------------------------------------
(* The same program run long enough to fill the History Buffer more than   *)
(* once, with a service that gives two answers in turn. Speech is left     *)
(* out: the mute button and the end of an utterance do not touch the       *)
(* history. A build whose click render skips the queued updates is run for *)
(* fewer requests: the updates it leaves queued between clicks multiply    *)
(* its states with every request.                                          *)
ElapseHistory ==
    PeriodElapses(IF clickFlushes THEN MaxHistoryRequests ELSE MaxSkippedRequests)
TickHistory ==
    \E context \in BOOLEAN :
        SamplerTick(IF clickFlushes THEN MaxHistoryRequests ELSE MaxSkippedRequests,
                    context)
RespondHistory ==
    \E i \in 1..Len(requests) : Resume(i, HistoryAnswer(requests[i].id))

NextHistory ==
    \/ CameraGranted
    \/ CameraDenied
    \/ ElapseHistory
    \/ TickHistory
    \/ RespondHistory
    \/ Render
    \/ toggleRecording
    \/ ClearTranscript

SpecHistory == Init /\ [][NextHistory]_vars

-----------------------------------------------------------------------------
(* The same program with a service that gives every kind of answer:        *)
(* failures, objects that lack a field, a confidence out of range. The     *)
(* mute button, the Clear button and the end of an utterance are left out. *)
ElapseService == PeriodElapses(MaxServiceRequests)
TickService == \E context \in BOOLEAN : SamplerTick(MaxServiceRequests, context)
RespondService ==
    \E i \in 1..Len(requests) : \E a \in Answers : Resume(i, a)

NextService ==
    \/ CameraGranted
    \/ CameraDenied
    \/ ElapseService
    \/ TickService
    \/ RespondService
    \/ Render
    \/ toggleRecording

SpecService == Init /\ [][NextService]_vars

-----------------------------------------------------------------------------
(* Fairness, as far as the program and its platform give it: the service   *)
(* answers every request (the assumption of the claim), the queued render  *)
(* runs, time passes, an interval that is due fires unless it is cleared   *)
(* first, and a canvas asked again and again for a context gives one. No   *)
(* condition is put on the clicks: every change of isActive, stream, error *)
(* or isMuted clears the interval and sets it anew (CameraView.tsx:72), so *)
(* in a fair run the mute button may be pressed within every period, and   *)
(* no tick fires. The service gives one accepted sign or fails.            *)
RespondFair ==
    \E i \in 1..Len(requests) : \E a \in FairAnswers : Resume(i, a)

ElapseFair == PeriodElapses(MaxFairRequests)
TickFair == \E context \in BOOLEAN : SamplerTick(MaxFairRequests, context)
TickDraws == SamplerTick(MaxFairRequests, TRUE)

NextFair ==
    \/ CameraGranted
    \/ CameraDenied
    \/ ElapseFair
    \/ TickFair
    \/ RespondFair
    \/ Render
    \/ toggleRecording
    \/ ToggleMute

\* of the ticks of an interval that goes on firing, some find a context
ContextGiven == []<><<TickFair>>_vars => []<><<TickDraws>>_vars

FairSpec ==
    Init /\ [][NextFair]_vars /\ WF_vars(RespondFair) /\ WF_vars(Render)
         /\ WF_vars(ElapseFair) /\ WF_vars(TickFair) /\ ContextGiven

-----------------------------------------------------------------------------
(* What a step did, read from the two states it joins.                     *)

\* a request was issued
Issues == Len(requests') > Len(requests)
\* handleFrameCapture resumed: a request left the set of outstanding ones
Resumes == Len(requests') < Len(requests)
\* the step rendered: it ran the updaters of at least one result
Processes == Len(processed') > Len(processed)
\* the step was an interval tick
TickFires == ticked' # "none"

(* What the latest step did, read from the state it led to.                *)

\* the updates of the result that the latest resumption queued
Delivered == pending[Len(pending)]
\* the latest step resumed a request and queued the updates of a result
HasDelivered ==
    answered # NoAnswer /\ pending # <<>> /\ Delivered.kind = "result"
\* the result the latest render applied last
LastApplied == applied[Len(applied)]
\* the place among all processed results of the k-th result of the latest render
Place(k) == Len(processed) - Len(applied) + k
\* the Sentence Builder rule as the specification states it, on the
\* Transcript prev the updater is given
Accepted(prev, text, confidence) ==
    /\ text # "..."
    /\ confidence > 60
    /\ (prev = <<>> \/ prev[Len(prev)] # text)

ResultA80 == [text |-> "A", confidence |-> 80]
ResultB80 == [text |-> "B", confidence |-> 80]
ResultA60 == [text |-> "A", confidence |-> 60]
SentinelResult == [text |-> "...", confidence |-> 0]

-----------------------------------------------------------------------------
(* C1. Single-flight: at most one inference request is outstanding in      *)
(* every reachable state; a request is issued only by a step that finds    *)
(* the busy flag false and leaves it true.                                 *)
C1_SingleFlight ==
    /\ [](Len(requests) <= 1)
    /\ [][Issues => (~isProcessingRef /\ isProcessingRef'
                     /\ Len(requests') = Len(requests) + 1)]_vars

\* a second request is outstanding after the first was answered
C1_Witness == Len(requests) = 1 /\ issued = 2 /\ isProcessingRef

-----------------------------------------------------------------------------
(* C2 as stated. A processed result's label is appended to the Transcript  *)
(* if and only if it is not "...", its confidence is above 60 and it       *)
(* differs from the last accepted label; otherwise the Transcript is       *)
(* unchanged.                                                              *)
C2_LastAcceptedLabel ==
    \A k \in 1..Len(applied) :
        LET e == applied[k]
        IN  e.next = IF /\ e.text # "..."
                        /\ e.confidence > 60
                        /\ <<e.text>> # e.last
                     THEN Append(e.prev, e.text)
                     ELSE e.prev

(* C2 as amended. The label is appended if and only if it is not "...",    *)
(* its confidence is above 60 and it differs from the last entry of the    *)
(* Transcript the updater is given (an empty Transcript accepts any such   *)
(* label); otherwise the Transcript is unchanged and no speech call is     *)
(* made. On an append, speak is called with the label: under a closure     *)
(* that is not muted it cancels and utters the label. The render commits   *)
(* the Transcript so built, or an empty one when a Clear or a restart was  *)
(* queued behind the result.                                               *)
C2_Acceptance ==
    /\ \A k \in 1..Len(applied) :
          LET e == applied[k]
          IN  IF Accepted(e.prev, e.text, e.confidence)
              THEN /\ e.next = Append(e.prev, e.text)
                   /\ ~e.muted => e.calls = << <<"cancel", "">>, <<"speak", e.text>> >>
              ELSE /\ e.next = e.prev
                   /\ e.calls = <<>>
    /\ applied # <<>> => sentence \in { LastApplied.next, <<>> }

\* A at 60 was dropped, then A at 80 was appended and spoken
C2_Witness ==
    /\ processed = <<ResultA60, ResultA80>>
    /\ Len(applied) = 1
    /\ applied[1].prev = <<>>
    /\ sentence = <<"A">>
    /\ speechCalls = << <<"cancel", "">>, <<"speak", "A">> >>

-----------------------------------------------------------------------------
(* C3. Debounce: when a result with a label and confidence above 60 is     *)
(* processed right after another result with the same label and            *)
(* confidence above 60, the Transcript then ends in exactly one entry of   *)
(* that label (and is unchanged if it already ended in it); the Transcript *)
(* never holds two adjacent equal entries and never holds "...".           *)
C3_Debounce ==
    /\ \A k \in 1..Len(applied) :
          LET e == applied[k]
          IN  (/\ Place(k) > 1
               /\ e.text # "..."
               /\ e.confidence > 60
               /\ processed[Place(k) - 1].text = e.text
               /\ processed[Place(k) - 1].confidence > 60)
              => /\ e.next[Len(e.next)] = e.text
                 /\ Len(e.next) > 1 => e.next[Len(e.next) - 1] # e.text
                 /\ (e.prev # <<>> /\ e.prev[Len(e.prev)] = e.text) => e.next = e.prev
    /\ \A i \in 1..Len(sentence) :
          /\ sentence[i] # "..."
          /\ i > 1 => sentence[i] # sentence[i - 1]

\* A at 80 twice in a row left one A
C3_Witness ==
    /\ processed = <<ResultA80, ResultA80>>
    /\ Len(applied) = 1
    /\ applied[1].prev = <<"A">>
    /\ sentence = <<"A">>
    /\ lastAccepted = <<"A">>
    /\ speechCalls = <<>>

-----------------------------------------------------------------------------
\* the latest step resumed with a failure: a rejected call, no response
\* text, text that is not JSON, or the JSON null
ResumedWithFailure == answered \in FailureAnswers
\* the latest step resumed with a JSON object that lacks sign or confidence
ResumedWithMissingField ==
    answered.kind = "object" /\ (~answered.hasSign \/ ~answered.hasConfidence)
\* every result of the latest render that is "..." or has confidence 0 left
\* the Transcript alone and made no speech call
SentinelsIgnored ==
    \A k \in 1..Len(applied) :
        (applied[k].text = "..." \/ applied[k].confidence = 0)
            => (applied[k].next = applied[k].prev /\ applied[k].calls = <<>>)

(* C4 as stated. translateSignLanguageFrame never raises; on a failure or  *)
(* a missing response field it returns exactly {"...", 0}, and processing  *)
(* that result leaves the Transcript unchanged and triggers no speech.     *)
C4_SentinelOnMissingField ==
    /\ (ResumedWithFailure \/ ResumedWithMissingField) =>
          (HasDelivered /\ Delivered.text = "..." /\ Delivered.confidence = 0)
    /\ SentinelsIgnored

(* C4 as amended. translateSignLanguageFrame never raises; on a rejected   *)
(* call, an empty response text, unparseable JSON or a JSON null it        *)
(* returns exactly {"...", 0}; on a JSON object that lacks a field it      *)
(* substitutes that field alone ("..." for a missing sign, 0 for a missing *)
(* confidence) and keeps the other; processing any of these results        *)
(* leaves the Transcript unchanged and triggers no speech.                 *)
C4_SentinelOnFailure ==
    /\ ResumedWithFailure =>
          (HasDelivered /\ Delivered.text = "..." /\ Delivered.confidence = 0)
    /\ ResumedWithMissingField =>
          /\ HasDelivered
          /\ ~answered.hasSign => Delivered.text = "..."
          /\ answered.hasSign => Delivered.text = answered.sign
          /\ ~answered.hasConfidence => Delivered.confidence = 0
          /\ answered.hasConfidence => Delivered.confidence = answered.confidence
    /\ SentinelsIgnored

\* a failure was processed as {"...", 0} with an A in the Transcript
C4_Witness ==
    /\ processed = <<ResultA80, SentinelResult>>
    /\ Len(applied) = 1
    /\ applied[1].prev = <<"A">>
    /\ currentSign = "..."
    /\ sentence = <<"A">>
    /\ speechCalls = <<>>

-----------------------------------------------------------------------------
(* C5. The History Buffer is a window of exactly 10 points in every        *)
(* reachable state; processing a result drops the oldest point, keeps the  *)
(* other 9 in order and puts the new point last, so the 11th point evicts  *)
(* the 1st.                                                                *)
C5_HistoryWindow ==
    /\ Len(confidenceHistory) = 10
    /\ \A k \in 1..Len(applied) :
          LET e == applied[k]
          IN  /\ Len(e.hprev) = 10 /\ Len(e.hnext) = 10
              /\ \A i \in 1..9 : e.hnext[i] = e.hprev[i + 1]
              /\ e.hnext[10].confidence = e.confidence
              /\ e.hnext[10].name # ""
    /\ applied # <<>> =>
          confidenceHistory \in
              { LastApplied.hnext, [i \in 1..10 |-> [name |-> "", confidence |-> 0]] }

\* 11 results in one session: the window holds the 2nd to the 11th, and the
\* 1st, whose confidence differs from the 2nd's, is gone
C5_Witness ==
    /\ Len(processed) = 11
    /\ applied # <<>>
    /\ processed[1].confidence # processed[2].confidence
    /\ \A i \in 1..10 :
          /\ confidenceHistory[i].name # ""
          /\ confidenceHistory[i].confidence = processed[i + 1].confidence

-----------------------------------------------------------------------------
(* C6 as stated. Every toggleRecording step from inactive to active sets   *)
(* the Transcript to empty and the History Buffer to 10 points of          *)
(* confidence 0; a toggle from active to inactive changes neither.         *)
C6_RestartReset ==
    [][(isActive' # isActive) =>
        IF ~isActive
        THEN /\ sentence' = <<>>
             /\ Len(confidenceHistory') = 10
             /\ \A i \in 1..10 : confidenceHistory'[i] = [name |-> "", confidence |-> 0]
        ELSE /\ sentence' = sentence
             /\ confidenceHistory' = confidenceHistory]_vars

(* C6 as amended. Every toggleRecording step from inactive to active sets  *)
(* the Transcript to empty and the History Buffer to 10 points of          *)
(* confidence 0. A toggle from active to inactive has no update of its own *)
(* for either: it leaves both unchanged, unless its render applies the     *)
(* updates of results that were queued before the click, and then both are *)
(* what those updaters, run in queue order on the Transcript and the       *)
(* History of before the click, leave.                                     *)
C6_RestartResetAfterQueued ==
    [][(isActive' # isActive) =>
        /\ clicked' = "record"
        /\ IF ~isActive
           THEN /\ sentence' = <<>>
                /\ Len(confidenceHistory') = 10
                /\ \A i \in 1..10 :
                      confidenceHistory'[i] = [name |-> "", confidence |-> 0]
           ELSE \/ /\ sentence' = sentence
                   /\ confidenceHistory' = confidenceHistory
                   /\ applied' = <<>>
                \/ /\ pending # <<>>
                   /\ pending' = <<>>
                   /\ Len(applied') = Len(pending)
                   /\ \A k \in 1..Len(pending) :
                         /\ pending[k].kind = "result"
                         /\ applied'[k].id = pending[k].id
                   /\ applied'[1].prev = sentence
                   /\ applied'[1].hprev = confidenceHistory
                   /\ sentence' = applied'[Len(applied')].next
                   /\ confidenceHistory' = applied'[Len(applied')].hnext]_vars

\* a session that had accepted a label was restarted
C6_Witness ==
    /\ isActive
    /\ clicked = "record"
    /\ lastAccepted # <<>>
    /\ applied = <<>>
    /\ sentence = <<>>
    /\ \A i \in 1..10 : confidenceHistory[i] = [name |-> "", confidence |-> 0]

-----------------------------------------------------------------------------
(* C7 as stated. The busy flag is false after every step that ends a       *)
(* request, whatever the answer and whether or not the session was stopped *)
(* or mute toggled meanwhile; when every request is answered, a set flag   *)
(* is eventually cleared and, while the session stays active (and requests *)
(* remain within MaxFairRequests), a further request is eventually issued: *)
(* the sampler never stalls for good.                                      *)
C7_BusyFlagRelease ==
    /\ [][Resumes => (~isProcessingRef' /\ requests' = <<>>)]_vars
    /\ (isProcessingRef ~> ~isProcessingRef)
    /\ \A n \in 0..(MaxFairRequests - 1) :
          (issued = n /\ isActive /\ stream /\ ~error) ~> (issued > n \/ ~isActive)

-----------------------------------------------------------------------------
\* the labels that the results applied by the step appended, in their order
AcceptedLabels ==
    LET acc == SelectSeq(applied', LAMBDA e : e.next # e.prev)
    IN  [i \in 1..Len(acc) |-> acc[i].text]

\* the last n labels of a sequence
Last(seq, n) == SubSeq(seq, Len(seq) - n + 1, Len(seq))

\* the step is a toggle from inactive to active
Activates == ~isActive /\ isActive'

\* the step is a click on Clear
Clears == clicked' = "clear"

-----------------------------------------------------------------------------
(* C9. Requests are issued only while the session is active and are never  *)
(* cancelled: when a request is answered while the session is inactive,    *)
(* the updates of its result are queued all the same, after which no       *)
(* request is outstanding, and the render applies them whatever the        *)
(* session flag (current sign set, history point appended, Sentence        *)
(* Builder rule applied). What the updaters built is committed, but for    *)
(* the update of a click on Clear or Start whose own render applies them:  *)
(* it follows theirs.                                                      *)
C9_NoCancellation ==
    /\ [][Issues => isActive]_vars
    /\ [][(Resumes /\ ~isActive) =>
            /\ Len(pending') = Len(pending) + 1
            /\ pending'[Len(pending')].kind = "result"
            /\ (answered'.kind = "object" /\ answered'.hasSign /\ answered'.sign # ""
                    /\ answered'.hasConfidence)
                 => /\ pending'[Len(pending')].text = answered'.sign
                    /\ pending'[Len(pending')].confidence = answered'.confidence
            /\ requests' = <<>>]_vars
    /\ [][(Processes /\ Len(pending) = 1) =>
            LET new == processed'[Len(processed')]
                e == applied'[1]
            IN  /\ pending[1].text = new.text
                /\ pending[1].confidence = new.confidence
                /\ currentSign' = new.text
                /\ Len(applied') = 1
                /\ e.hprev = confidenceHistory
                /\ e.hnext[10].confidence = new.confidence
                /\ e.hnext[10].name # ""
                /\ \A i \in 1..9 : e.hnext[i] = confidenceHistory[i + 1]
                /\ e.prev = sentence
                /\ e.next = IF Accepted(sentence, new.text, new.confidence)
                            THEN Append(sentence, new.text)
                            ELSE sentence
                /\ confidenceHistory' = IF Activates
                                        THEN [i \in 1..10 |-> [name |-> "", confidence |-> 0]]
                                        ELSE e.hnext
                /\ sentence' = IF Activates \/ Clears THEN <<>> ELSE e.next]_vars

\* the answer A at 80 arrived after the session was stopped; its updates were
\* queued and then rendered
C9_Witness ==
    /\ ~isActive
    /\ issued = 1
    /\ Len(applied) = 1
    /\ currentSign = "A"
    /\ sentence = <<"A">>
    /\ processed = <<ResultA80>>
    /\ confidenceHistory[10] = [name |-> "hh:mm:ss", confidence |-> 80]

-----------------------------------------------------------------------------
(* C10. Speech calls are made only by a step that appends a label to the   *)
(* Transcript, and are then a cancel followed by the utterance of that     *)
(* label; when isMuted holds as the label is accepted, no speech call is   *)
(* made, also when mute was switched on while the request was in flight.   *)
C10_SpeechGate ==
    /\ speechCalls # <<>> => applied # <<>>
    /\ \A k \in 1..Len(applied) :
          applied[k].calls # <<>> =>
             /\ applied[k].next = Append(applied[k].prev, applied[k].text)
             /\ applied[k].calls = << <<"cancel", "">>, <<"speak", applied[k].text>> >>
    /\ (applied # <<>> /\ isMuted) => speechCalls = <<>>

-----------------------------------------------------------------------------
(* C11. Once camera acquisition has failed the error stays set, and no     *)
(* interval tick fires and no request is issued from then on, whatever     *)
(* the session toggles; no tick fires before the stream is acquired.       *)
C11_CameraFailure ==
    /\ [][error => error']_vars
    /\ [][(TickFires \/ Issues) => (stream /\ ~error)]_vars
    /\ [](error => (~stream /\ issued = 0 /\ requests = <<>> /\ ~isProcessingRef))

\* the camera failed and the session was started all the same
C11_Witness ==
    /\ error
    /\ isActive
    /\ isMuted
    /\ issued = 0
    /\ ticked = "none"

-----------------------------------------------------------------------------
(* C12. A tick that finds the busy flag set issues no request and leaves   *)
(* the flag, the outstanding request, the current sign, the Transcript and *)
(* the History unchanged; the count of issued requests grows by one in     *)
(* exactly the steps that are ticks finding the flag clear, so it equals   *)
(* the number of such ticks.                                               *)
C12_DroppedTicks ==
    /\ [][ticked' = "dropped" =>
            /\ isProcessingRef
            /\ UNCHANGED <<isProcessingRef, requests, issued, currentSign,
                           sentence, confidenceHistory, processed, speechQueue,
                           pending, base>>]_vars
    /\ [][ticked' = "issued" =>
            (~isProcessingRef /\ issued' = issued + 1
             /\ Len(requests') = Len(requests) + 1)]_vars
    /\ [][(issued' # issued \/ Issues) => ticked' = "issued"]_vars

\* a tick found the first request still outstanding and was dropped
C12_Witness ==
    /\ ticked = "dropped"
    /\ isProcessingRef
    /\ Len(requests) = 1
    /\ issued = 1
    /\ processed = <<>>

-----------------------------------------------------------------------------
\* the confidence of the result that translateSignLanguageFrame makes of the
\* answer the latest step resumed with
AnsweredConfidence ==
    IF answered.kind = "object" /\ answered.hasConfidence
    THEN answered.confidence
    ELSE 0

(* C13. Every resumption queues the updates of one result, and every       *)
(* result processed appends exactly one point with that result's           *)
(* confidence to the History Buffer, whether the result is accepted or not *)
(* (failures, confidence of 60 or less and repeated labels included).      *)
C13_HistoryRecordsAll ==
    /\ answered # NoAnswer =>
          (HasDelivered /\ Delivered.confidence = AnsweredConfidence)
    /\ \A k \in 1..Len(applied) :
          applied[k].hnext =
              Tail(applied[k].hprev)
                \o << [name |-> "hh:mm:ss", confidence |-> applied[k].confidence] >>

\* an accepted A, a repeated A and a failure left one point each
C13_Witness ==
    /\ processed = <<ResultA80, ResultA80, SentinelResult>>
    /\ Len(applied) = 1
    /\ sentence = <<"A">>
    /\ confidenceHistory[7].name = ""
    /\ confidenceHistory[8] = [name |-> "hh:mm:ss", confidence |-> 80]
    /\ confidenceHistory[9] = [name |-> "hh:mm:ss", confidence |-> 80]
    /\ confidenceHistory[10] = [name |-> "hh:mm:ss", confidence |-> 0]

-----------------------------------------------------------------------------
(* C14 as stated. Mute does not interfere with data. A mute toggle leaves  *)
(* the Transcript, the History, the busy flag, the session flag, the       *)
(* queued updates and the outstanding request as they are; and what every  *)
(* other step does to them is fixed by their values and by the event alone *)
(* (the result processed, the tick, the button), whatever isMuted is and   *)
(* whatever the closure of the request holds. Two runs of the same events  *)
(* that toggle mute at different moments therefore agree on them at every  *)
(* step.                                                                   *)
C14_MuteNonInterference ==
    /\ [][isMuted' # isMuted =>
            /\ UNCHANGED <<sentence, confidenceHistory, isProcessingRef, isActive,
                           currentSign, issued, processed, stream, error, base>>
            /\ Len(requests') = Len(requests)
            /\ pending' = pending]_vars
    /\ [][Resumes =>
            /\ isMuted' = isMuted
            /\ ~isProcessingRef'
            /\ Len(pending') = Len(pending) + 1
            /\ UNCHANGED <<sentence, confidenceHistory, currentSign>>]_vars
    /\ [][Processes =>
            /\ isMuted' = isMuted
            /\ pending' = <<>>
            /\ currentSign' = applied'[Len(applied')].text
            /\ \A k \in 1..Len(applied') :
                  LET e == applied'[k]
                  IN  /\ e.next = IF Accepted(e.prev, e.text, e.confidence)
                                  THEN e.prev \o <<e.text>>
                                  ELSE e.prev
                      /\ \A i \in 1..9 : e.hnext[i] = e.hprev[i + 1]
                      /\ e.hnext[10].confidence = e.confidence]_vars
    /\ [][ticked' \in {"issued", "dropped"} =>
            /\ (ticked' = "issued") <=> ~isProcessingRef
            /\ UNCHANGED <<isMuted, sentence, confidenceHistory, isActive>>]_vars

\* the step renders the queued updates, all of them of results, as the
\* render task would: the updaters run in queue order on the Transcript and
\* the History the updates were queued on, each by the rule of the Sentence
\* Builder and the slide of the window, and what the last one leaves is
\* committed
RendersQueued ==
    /\ pending # <<>>
    /\ pending' = <<>>
    /\ Len(applied') = Len(pending)
    /\ \A k \in 1..Len(pending) :
          /\ pending[k].kind = "result"
          /\ applied'[k].id = pending[k].id
          /\ applied'[k].text = pending[k].text
          /\ applied'[k].confidence = pending[k].confidence
          /\ applied'[k].prev = IF k = 1 THEN sentence ELSE applied'[k - 1].next
          /\ applied'[k].hprev =
                IF k = 1 THEN confidenceHistory ELSE applied'[k - 1].hnext
          /\ applied'[k].next =
                IF Accepted(applied'[k].prev, applied'[k].text, applied'[k].confidence)
                THEN applied'[k].prev \o <<applied'[k].text>>
                ELSE applied'[k].prev
          /\ \A i \in 1..9 : applied'[k].hnext[i] = applied'[k].hprev[i + 1]
          /\ applied'[k].hnext[10].confidence = applied'[k].confidence
    /\ sentence' = applied'[Len(applied')].next
    /\ confidenceHistory' = applied'[Len(applied')].hnext
    /\ currentSign' = applied'[Len(applied')].text

(* C14 as amended. Mute does not interfere with data, but a mute click may *)
(* bring the render of queued updates forward. A mute toggle leaves the    *)
(* busy flag, the session flag, the count of requests and the outstanding  *)
(* request as they are, and has no update of its own for the Transcript,   *)
(* the History or the current sign: it leaves them and the queued updates  *)
(* unchanged, or (in a build whose click render applies the queued         *)
(* updates) its render applies the queued updates of results exactly as    *)
(* the render task would have. What every other step does to them is fixed *)
(* by their values and by the event alone (the result processed, the tick, *)
(* the button), whatever isMuted is and whatever the closure of the        *)
(* request holds. Two runs of the same events that toggle mute at          *)
(* different moments therefore agree on the Transcript and the History     *)
(* whenever no update is queued in either.                                 *)
C14_MuteOnlyRendersQueued ==
    /\ [][isMuted' # isMuted =>
            /\ clicked' = "mute"
            /\ UNCHANGED <<isProcessingRef, isActive, issued>>
            /\ Len(requests') = Len(requests)
            /\ \/ /\ UNCHANGED <<sentence, confidenceHistory, currentSign,
                                  processed, stream, error, base>>
                  /\ pending' = pending
               \/ /\ pending = <<>>
                  /\ UNCHANGED <<sentence, confidenceHistory, currentSign,
                                  processed, pending>>
               \/ RendersQueued]_vars
    /\ [][Resumes =>
            /\ isMuted' = isMuted
            /\ ~isProcessingRef'
            /\ Len(pending') = Len(pending) + 1
            /\ UNCHANGED <<sentence, confidenceHistory, currentSign>>]_vars
    /\ [][Processes =>
            /\ isMuted' = isMuted \/ clicked' = "mute"
            /\ pending' = <<>>
            /\ currentSign' = applied'[Len(applied')].text
            /\ \A k \in 1..Len(applied') :
                  LET e == applied'[k]
                  IN  /\ e.next = IF Accepted(e.prev, e.text, e.confidence)
                                  THEN e.prev \o <<e.text>>
                                  ELSE e.prev
                      /\ \A i \in 1..9 : e.hnext[i] = e.hprev[i + 1]
                      /\ e.hnext[10].confidence = e.confidence]_vars
    /\ [][(Processes /\ clicked' = "none"
              /\ \A k \in 1..Len(pending) : pending[k].kind = "result")
            => (LET first == applied'[1]
                    last == applied'[Len(applied')]
                IN  /\ first.prev = base.sentence
                    /\ first.hprev = base.confidenceHistory
                    /\ sentence' = last.next
                    /\ confidenceHistory' = last.hnext)]_vars
    /\ [][ticked' \in {"issued", "dropped"} =>
            /\ (ticked' = "issued") <=> ~isProcessingRef
            /\ UNCHANGED <<isMuted, sentence, confidenceHistory, isActive>>]_vars

\* the click that switched mute on rendered the queued updates of a result
\* accepted under a closure that was not muted: the label is in the
\* Transcript and the History, and was spoken
C14_Witness ==
    /\ clicked = "mute"
    /\ isMuted
    /\ Len(applied) = 1
    /\ ~applied[1].muted
    /\ applied[1].prev = <<>>
    /\ processed = <<ResultA80>>
    /\ sentence = <<"A">>
    /\ confidenceHistory[10].confidence = 80
    /\ speechQueue = <<"A">>

-----------------------------------------------------------------------------
\* the requests whose results are queued, oldest first, then those outstanding
Unprocessed ==
    [k \in 1..(Len(pending) + Len(requests)) |->
        IF k <= Len(pending) THEN pending[k].id ELSE requests[k - Len(pending)].id]

(* C15. Results are processed in the order in which their requests were    *)
(* issued: the k-th result processed is that of the k-th request issued,   *)
(* and the results queued and the requests outstanding are, in that order, *)
(* those issued after the ones processed.                                  *)
C15_ProcessingOrder ==
    /\ \A k \in 1..Len(applied) : applied[k].id = Place(k)
    /\ \A j, k \in 1..Len(Unprocessed) :
          (j < k /\ Unprocessed[j] # 0 /\ Unprocessed[k] # 0)
             => /\ Len(processed) < Unprocessed[j]
                /\ Unprocessed[j] < Unprocessed[k]
                /\ Unprocessed[k] <= issued
    /\ \A k \in 1..Len(requests) : requests[k].id > Len(processed)

\* two results were processed and the third request is outstanding
C15_Witness ==
    /\ Len(processed) = 2
    /\ Len(applied) = 1
    /\ applied[1].id = 2
    /\ Len(requests) = 1
    /\ requests[1].id = 3

-----------------------------------------------------------------------------
(* C16. The debounce looks at the last entry alone: a result above 60      *)
(* whose label equals the entry before the last and differs from the last  *)
(* is appended, so A, B, A processed with no reset in between give the     *)
(* Transcript A, B, A (a Clear or a restart in between leaves its tail).   *)
C16_ReacceptAfterOther ==
    /\ \A k \in 1..Len(applied) :
          LET e == applied[k]
          IN  (/\ Len(e.prev) >= 2
               /\ e.text # "..."
               /\ e.confidence > 60
               /\ e.prev[Len(e.prev) - 1] = e.text
               /\ e.prev[Len(e.prev)] # e.text)
              => e.next = e.prev \o <<e.text>>
    /\ processed = <<ResultA80, ResultB80, ResultA80>> =>
          sentence \in { <<"A", "B", "A">>, <<"B", "A">>, <<"A">>, <<>> }

\* the second A was just appended after A and B, and spoken
C16_Witness ==
    /\ processed = <<ResultA80, ResultB80, ResultA80>>
    /\ Len(applied) = 1
    /\ applied[1].prev = <<"A", "B">>
    /\ sentence = <<"A", "B", "A">>
    /\ speechCalls = << <<"cancel", "">>, <<"speak", "A">> >>
    /\ lastAccepted = <<"A">>

-----------------------------------------------------------------------------
(* C17. No sampling while inactive: an interval tick fires, and a request  *)
(* is issued, only in a state where the session is active, the stream is   *)
(* acquired and no camera error is set; while the session is inactive the  *)
(* count of issued requests does not change.                               *)
C17_NoSamplingWhileInactive ==
    /\ [][(TickFires \/ Issues) => (isActive /\ stream /\ ~error)]_vars
    /\ [][~isActive => (issued' = issued /\ Len(requests') <= Len(requests))]_vars

\* the session was stopped after two requests, the second one still
\* outstanding, and later answered without a further request being issued
C17_Witness ==
    /\ ~isActive
    /\ stream
    /\ issued = 2
    /\ Len(processed) = 1
    /\ answered # NoAnswer
    /\ requests = <<>>

-----------------------------------------------------------------------------
(* C18 as stated. Every result the Inference Client produced, and every    *)
(* point of the History Buffer, has a confidence in 0..100, whatever the   *)
(* service answered.                                                       *)
C18_ConfidenceRange ==
    /\ \A i \in 1..Len(pending) : pending[i].confidence \in 0..100
    /\ \A i \in 1..Len(processed) : processed[i].confidence \in 0..100
    /\ \A i \in 1..10 : confidenceHistory[i].confidence \in 0..100

-----------------------------------------------------------------------------
(* C19 as stated. The result of a request issued in an earlier session     *)
(* (in flight when the session was stopped and started again) is appended  *)
(* neither to the Transcript nor to the History Buffer of the new session. *)
C19_NoLeakAcrossSessions ==
    \A k \in 1..Len(applied) :
        applied[k].stale =>
            (applied[k].next = applied[k].prev /\ applied[k].hnext = applied[k].hprev)

-----------------------------------------------------------------------------
(* C20 as stated. The busy flag is true if and only if exactly one request *)
(* is outstanding, a request being outstanding from its issue until its    *)
(* result is fully processed: until the updates of the result are applied. *)
C20_FlagMirrorsUnprocessed ==
    isProcessingRef <=> (Len(requests) + Cardinality(Queued(pending)) = 1)

(* C20 as amended. The busy flag is true if and only if exactly one        *)
(* request is awaited (issued, and handleFrameCapture has not yet run to   *)
(* its end with the answer), and never more than one is; the updates that  *)
(* the handler queued are applied by a later render, whatever the flag.    *)
C20_FlagMirrorsSlot ==
    /\ isProcessingRef <=> (Len(requests) = 1)
    /\ Len(requests) <= 1

\* a request is awaited with the flag set while the result of the request
\* before it is still queued for its render, after a stop and a mute click
C20_Witness ==
    /\ isProcessingRef
    /\ Len(requests) = 1
    /\ Queued(pending) # {}
    /\ ~isActive
    /\ isMuted
    /\ issued = 2

=============================================================================
